---------------------------- MODULE Spec2Model ----------------------------
(***************************************************************************)
(* The uncommitted-changes slice of the desktop client: tree changes, hunk *)
(* assignments and hunk selections, the reducers that check and uncheck    *)
(* lines, hunks, files, directories and stacks, and the selectors that     *)
(* derive checkbox states from them.                                       *)
(*                                                                         *)
(* Representation.  A JavaScript string is a sequence of one-character     *)
(* strings, so that startsWith and template concatenation are computed and *)
(* not assumed.  null / undefined is the empty sequence Null for a stack   *)
(* id, a stable id and a hunk header (the empty string is not used as a    *)
(* stack id; for a stable id the empty string is falsy like undefined).    *)
(* A HunkHeader is <<oldStart, oldLines, newStart, newLines>>.  A LineId   *)
(* is [oldLine, newLine] with 0 for undefined.  An EntityState is the      *)
(* function from its ids to its entities.                                  *)
(***************************************************************************)
EXTENDS Integers, Sequences, FiniteSets, TLC

VARIABLES
    treeChanges,      \* state.treeChanges: path -> TreeChange
    hunkAssignments,  \* state.hunkAssignments: composite key -> HunkAssignment
    hunkSelection,    \* state.hunkSelection: assignmentId -> HunkSelection
    lastAction,       \* the type of the action dispatched last
    branches,         \* the branches of its reducer that dispatch ran through
    error,            \* what that dispatch threw, "none" if it returned
    snapshot,         \* the payload of the most recent update
    trip,             \* the sequence of dispatches under way, if any
    store,            \* AppState._store: the state of the application store
    rootState,        \* AppState.rootState: the value held, the subscribers
    streams,          \* example, posts, feeds: the subscribers of each
    received          \* the value each subscriber of a stream received last

\* The uncommitted-changes slice and what is recorded of its dispatches.
uncommitted == <<treeChanges, hunkAssignments, hunkSelection, lastAction,
                 branches, error, snapshot, trip>>

\* The application store and its streams.
appState == <<store, rootState, streams, received>>

vars == <<treeChanges, hunkAssignments, hunkSelection, lastAction, branches,
          error, snapshot, trip, store, rootState, streams, received>>

---------------------------------------------------------------------------
(* Bounds and input domains *)

\* Longest explicit line list checkLine may still append to.
MaxLines == 2

Null == <<>>

StackIds == {Null, <<"a">>}

Paths == {<<"f">>}

H1 == <<1, 2, 1, 1>>
H2 == <<5, 1, 4, 2>>
HunkHeaders == {H1, H2}

\* The header of an assignment: a hunk's, or Null for a whole file.
AssignmentHeaders == HunkHeaders \cup {Null}

StableIds == {<<"S", "1">>, <<"S", "2">>}

Statuses == {"modified"}

\* Two removed lines (no new line number) and one context line.
L1 == [oldLine |-> 1, newLine |-> 0]
L2 == [oldLine |-> 2, newLine |-> 0]
L3 == [oldLine |-> 3, newLine |-> 1]
LineIds == {L1, L2}

---------------------------------------------------------------------------
(* Strings *)

StartsWith(s, prefix) ==
    /\ Len(prefix) =< Len(s)
    /\ SubSeq(s, 1, Len(prefix)) = prefix

\* `${value}` for a string | null.
TemplateString(value) ==
    IF value = Null THEN <<"n", "u", "l", "l">> ELSE value

Digit(n) == <<"0", "1", "2", "3", "4", "5", "6", "7", "8", "9">>[n + 1]

Delimiter == <<"|">>

hunkHeaderKey(hunkHeader) ==
    IF hunkHeader = Null
    THEN <<"n", "u", "l", "l">>
    ELSE <<Digit(hunkHeader[1]), ":", Digit(hunkHeader[2]), ":",
           Digit(hunkHeader[3]), ":", Digit(hunkHeader[4])>>

compositeKey(stackId, path, hunkHeader) ==
    TemplateString(stackId) \o Delimiter \o path \o Delimiter
        \o hunkHeaderKey(hunkHeader)

\* partialKey(stackId, path): the key of a file, up to and including the
\* delimiter that ends the path.
partialKey(stackId, path) ==
    TemplateString(stackId) \o Delimiter \o path \o Delimiter

\* partialKey(stackId) without a path: the key of a stack.
partialKeyOfStack(stackId) ==
    TemplateString(stackId) \o Delimiter

\* prefixKey(stackId, path): the key up to the end of a path prefix.
prefixKey(stackId, path) ==
    TemplateString(stackId) \o Delimiter \o path

---------------------------------------------------------------------------
(* Entity adapters *)

EmptyState == [k \in {} |-> Null]

Ids(state) == DOMAIN state

AddOne(state, id, entity) ==
    IF id \in DOMAIN state
    THEN state
    ELSE [k \in DOMAIN state \cup {id} |->
            IF k = id THEN entity ELSE state[k]]

UpsertOne(state, id, entity) ==
    [k \in DOMAIN state \cup {id} |-> IF k = id THEN entity ELSE state[k]]

RemoveMany(state, ids) ==
    [k \in DOMAIN state \ ids |-> state[k]]

RemoveOne(state, id) == RemoveMany(state, {id})

\* selectByPrefix: the ids of the entities whose id starts with the prefix.
SelectByPrefix(state, prefix) ==
    {k \in DOMAIN state : StartsWith(k, prefix)}

assignmentKey(a) == compositeKey(a.stackId, a.path, a.hunkHeader)

---------------------------------------------------------------------------
(* Entities *)

HunkAssignment(id, stackId, path, hunkHeader) ==
    [id |-> id, stackId |-> stackId, path |-> path, hunkHeader |-> hunkHeader]

HunkSelection(stableId, stackId, path, assignmentId, lines) ==
    [stableId |-> stableId, stackId |-> stackId, path |-> path,
     assignmentId |-> assignmentId, lines |-> lines]

TreeChange(path, status) == [path |-> path, status |-> status]

\* The comparison with && for ||.
OtherLineBothDiffer(l, line) ==
    l.newLine # line.newLine /\ l.oldLine # line.oldLine

\* l.newLine !== line.newLine || l.oldLine !== line.oldLine
OtherLine(l, line) == l.newLine # line.newLine \/ l.oldLine # line.oldLine

\* lines.filter((l) => OtherLine(l, line))
RECURSIVE FilterLine(_, _)
FilterLine(lines, line) ==
    IF lines = <<>>
    THEN <<>>
    ELSE IF OtherLine(Head(lines), line)
         THEN <<Head(lines)>> \o FilterLine(Tail(lines), line)
         ELSE FilterLine(Tail(lines), line)

---------------------------------------------------------------------------
(* Reducers.  Each is the hunkSelection the reducer leaves, given the      *)
(* hunkSelection and hunkAssignments it finds, and the error it throws.    *)
(* A reducer that throws leaves the whole state as it found it.            *)

\* clearHunkSelection that returns at once for the stack id null.
clearHunkSelectionReducerNonNull(selections, stackId) ==
    IF stackId = Null
    THEN selections
    ELSE RemoveMany(selections,
             {id \in Ids(selections) : StartsWith(id, stackId)})

clearHunkSelectionReducer(selections, stackId) ==
    RemoveMany(selections,
               {id \in Ids(selections) : StartsWith(id, TemplateString(stackId))})

checkLineError(selections, assignments, stackId, path, hunkHeader) ==
    LET key == compositeKey(stackId, path, hunkHeader)
    IN  IF key \notin Ids(selections) /\ key \notin Ids(assignments)
        THEN "ExpectedAssignment"
        ELSE "none"

\* checkLine that creates the selection with no lines, as checkHunk does.
checkLineReducerWholeHunk(selections, assignments, stackId, path, hunkHeader, line) ==
    LET key == compositeKey(stackId, path, hunkHeader)
    IN  IF key \in Ids(selections)
        THEN UpsertOne(selections, key,
                 [selections[key] EXCEPT !.lines = Append(@, line)])
        ELSE AddOne(selections, key,
                 HunkSelection(assignments[key].id, stackId,
                               assignments[key].path, key, <<>>))

checkLineReducer(selections, assignments, stackId, path, hunkHeader, line) ==
    LET key == compositeKey(stackId, path, hunkHeader)
    IN  IF key \in Ids(selections)
        THEN UpsertOne(selections, key,
                 [selections[key] EXCEPT !.lines = Append(@, line)])
        ELSE AddOne(selections, key,
                 HunkSelection(assignments[key].id, stackId,
                               assignments[key].path, key, <<line>>))

\* uncheckLine without the check for an assignment without hunk header.
uncheckLineErrorNoHeaderCheck(selections, assignments, stackId, path, hunkHeader) ==
    LET key == compositeKey(stackId, path, hunkHeader)
    IN  IF key \notin Ids(selections)
        THEN "none"
        ELSE IF selections[key].assignmentId \notin Ids(assignments)
        THEN "ExpectedAssignment"
        ELSE "none"

uncheckLineError(selections, assignments, stackId, path, hunkHeader) ==
    LET key == compositeKey(stackId, path, hunkHeader)
    IN  IF key \notin Ids(selections)
        THEN "none"
        ELSE IF selections[key].assignmentId \notin Ids(assignments)
        THEN "ExpectedAssignment"
        ELSE IF assignments[selections[key].assignmentId].hunkHeader = Null
        THEN "NotImplemented"
        ELSE "none"

\* uncheckLine that takes a selection without lines for one with some lines.
uncheckLineReducerNoWholeHunk(selections, stackId, path, hunkHeader, line, allLinesInHunk) ==
    LET key == compositeKey(stackId, path, hunkHeader)
    IN  IF key \notin Ids(selections)
        THEN selections
        ELSE LET selection == selections[key]
                 newLines == FilterLine(selection.lines, line)
             IN  IF Len(newLines) > 0
                 THEN UpsertOne(selections, selection.assignmentId,
                          [selection EXCEPT !.lines = newLines])
                 ELSE RemoveOne(selections, selection.assignmentId)

uncheckLineReducer(selections, stackId, path, hunkHeader, line, allLinesInHunk) ==
    LET key == compositeKey(stackId, path, hunkHeader)
    IN  IF key \notin Ids(selections)
        THEN selections
        ELSE LET selection == selections[key]
                 newLines ==
                     IF Len(selection.lines) = 0
                     THEN FilterLine(allLinesInHunk, line)
                     ELSE FilterLine(selection.lines, line)
             IN  IF Len(newLines) > 0
                 THEN UpsertOne(selections, selection.assignmentId,
                          [selection EXCEPT !.lines = newLines])
                 ELSE RemoveOne(selections, selection.assignmentId)

\* The loop of checkHunk (one key), checkFile, checkDir and checkStack: every
\* assignment in keys gets a selection with no lines.
UpsertWhole(selections, assignments, keys, stackId) ==
    [k \in Ids(selections) \cup keys |->
        IF k \in keys
        THEN HunkSelection(assignments[k].id, stackId, assignments[k].path,
                           assignmentKey(assignments[k]), <<>>)
        ELSE selections[k]]

\* checkHunk with addOne for upsertOne: a selection already held stays.
checkHunkReducerAddOne(selections, assignments, stackId, path, hunkHeader) ==
    LET key == compositeKey(stackId, path, hunkHeader)
    IN  IF key \in Ids(assignments)
        THEN AddOne(selections, key,
                 HunkSelection(assignments[key].id, stackId,
                               assignments[key].path, key, <<>>))
        ELSE selections

\* checkHunk that upserts whether or not it found the assignment, with the
\* path of the payload.
checkHunkReducerUnguarded(selections, assignments, stackId, path, hunkHeader) ==
    LET key == compositeKey(stackId, path, hunkHeader)
    IN  UpsertOne(selections, key,
            HunkSelection(IF key \in Ids(assignments)
                          THEN assignments[key].id ELSE Null,
                          stackId, path, key, <<>>))

checkHunkReducer(selections, assignments, stackId, path, hunkHeader) ==
    LET key == compositeKey(stackId, path, hunkHeader)
    IN  IF key \in Ids(assignments)
        THEN UpsertWhole(selections, assignments, {key}, stackId)
        ELSE selections

\* uncheckHunk that removes every selection of the hunk's file.
uncheckHunkReducerWholeFile(selections, stackId, path, hunkHeader) ==
    RemoveMany(selections,
               SelectByPrefix(selections, partialKey(stackId, path)))

uncheckHunkReducer(selections, stackId, path, hunkHeader) ==
    RemoveOne(selections, compositeKey(stackId, path, hunkHeader))

\* checkFile with the prefix of checkDir.
checkFileReducerByPrefixKey(selections, assignments, stackId, path) ==
    UpsertWhole(selections, assignments,
                SelectByPrefix(assignments, prefixKey(stackId, path)), stackId)

checkFileReducer(selections, assignments, stackId, path) ==
    UpsertWhole(selections, assignments,
                SelectByPrefix(assignments, partialKey(stackId, path)), stackId)

uncheckFileReducer(selections, stackId, path) ==
    RemoveMany(selections,
        {selections[k].assignmentId :
            k \in SelectByPrefix(selections, partialKey(stackId, path))})

checkDirReducer(selections, assignments, stackId, path) ==
    UpsertWhole(selections, assignments,
                SelectByPrefix(assignments, prefixKey(stackId, path)), stackId)

uncheckDirReducer(selections, stackId, path) ==
    RemoveMany(selections,
        {selections[k].assignmentId :
            k \in SelectByPrefix(selections, prefixKey(stackId, path))})

\* checkStack that leaves its loop after the first assignment.
checkStackReducerFirstOnly(selections, assignments, stackId) ==
    LET keys == SelectByPrefix(assignments, partialKeyOfStack(stackId))
    IN  IF keys = {}
        THEN selections
        ELSE UpsertWhole(selections, assignments,
                         {CHOOSE k \in keys : TRUE}, stackId)

checkStackReducer(selections, assignments, stackId) ==
    UpsertWhole(selections, assignments,
                SelectByPrefix(assignments, partialKeyOfStack(stackId)), stackId)

uncheckStackReducer(selections, stackId) ==
    RemoveMany(selections,
        {selections[k].assignmentId :
            k \in SelectByPrefix(selections, partialKeyOfStack(stackId))})

---------------------------------------------------------------------------
(* updateAssignments *)

\* treeChangeAdapter.addMany(getInitialState(), changes)
TreeChangeState(changes) ==
    [p \in {c.path : c \in changes} |-> CHOOSE c \in changes : c.path = p]

\* addMany onto the assignments already held instead of the initial state.
HunkAssignmentStateMerged(assignments) ==
    [k \in Ids(hunkAssignments) \cup {assignmentKey(a) : a \in assignments} |->
        IF k \in Ids(hunkAssignments)
        THEN hunkAssignments[k]
        ELSE CHOOSE a \in assignments : assignmentKey(a) = k]

\* hunkAssignmentAdapter.addMany(getInitialState(), assignments)
HunkAssignmentState(assignments) ==
    [k \in {assignmentKey(a) : a \in assignments} |->
        CHOOSE a \in assignments : assignmentKey(a) = k]

\* a.id || compositeKey(a)
NewAssignmentKey(a) == IF a.id # Null THEN a.id ELSE assignmentKey(a)

\* old.stableId || old.assignmentId
OldSelectionKey(old) ==
    IF old.stableId # Null THEN old.stableId ELSE old.assignmentId

\* The assignments newAssignments.get finds for some old selection.
Relinked(oldSelections, assignments) ==
    {a \in assignments :
        \E id \in Ids(oldSelections) :
            NewAssignmentKey(a) = OldSelectionKey(oldSelections[id])}

\* updateAssignments that keeps the old selections it could not relink.
updateSelectionsKeepingUnmatched(oldSelections, assignments) ==
    LET kept == Relinked(oldSelections, assignments)
        keys == {assignmentKey(a) : a \in kept}
        unmatched ==
            {id \in Ids(oldSelections) :
                \A a \in assignments :
                    NewAssignmentKey(a) # OldSelectionKey(oldSelections[id])}
    IN  [k \in keys \cup unmatched |->
            IF k \in keys
            THEN LET a == CHOOSE a \in kept : assignmentKey(a) = k
                 IN  HunkSelection(a.id, a.stackId, a.path, assignmentKey(a),
                                   <<>>)
            ELSE oldSelections[k]]

\* updateAssignments with the TODO done: the old lines are carried over.
updateSelectionsCarryingLines(oldSelections, assignments) ==
    LET kept == Relinked(oldSelections, assignments)
    IN  [k \in {assignmentKey(a) : a \in kept} |->
            LET a == CHOOSE a \in kept : assignmentKey(a) = k
                old == CHOOSE id \in Ids(oldSelections) :
                           NewAssignmentKey(a)
                               = OldSelectionKey(oldSelections[id])
            IN  HunkSelection(a.id, a.stackId, a.path, assignmentKey(a),
                              oldSelections[old].lines)]

\* updateAssignments that looks old selections up by stable id alone, and
\* finds none for a selection without.
updateSelectionsByStableId(oldSelections, assignments) ==
    LET kept == {a \in assignments :
                    \E id \in Ids(oldSelections) :
                        /\ oldSelections[id].stableId # Null
                        /\ NewAssignmentKey(a) = oldSelections[id].stableId}
    IN  [k \in {assignmentKey(a) : a \in kept} |->
            LET a == CHOOSE a \in kept : assignmentKey(a) = k
            IN  HunkSelection(a.id, a.stackId, a.path, assignmentKey(a), <<>>)]

updateSelections(oldSelections, assignments) ==
    LET kept == Relinked(oldSelections, assignments)
    IN  [k \in {assignmentKey(a) : a \in kept} |->
            LET a == CHOOSE a \in kept : assignmentKey(a) = k
            IN  HunkSelection(a.id, a.stackId, a.path, assignmentKey(a), <<>>)]

---------------------------------------------------------------------------
(* Selectors *)

hunkCheckStatus(selections, stackId, path, hunkHeader) ==
    LET key == compositeKey(stackId, path, hunkHeader)
    IN  IF key \notin Ids(selections)
        THEN [selected |-> FALSE, lines |-> <<>>]
        ELSE [selected |-> TRUE, lines |-> selections[key].lines]

\* fileCheckStatus without the test that the selections have no lines.
fileCheckStatusIgnoringLines(selections, assignments, stackId, path) ==
    LET prefix == partialKey(stackId, path)
        selection == SelectByPrefix(selections, prefix)
        stackAssignments == SelectByPrefix(assignments, prefix)
    IN  IF Cardinality(selection) = 0
        THEN "unchecked"
        ELSE IF Cardinality(selection) = Cardinality(stackAssignments)
        THEN "checked"
        ELSE "indeterminate"

fileCheckStatus(selections, assignments, stackId, path) ==
    LET prefix == partialKey(stackId, path)
        selection == SelectByPrefix(selections, prefix)
        stackAssignments == SelectByPrefix(assignments, prefix)
    IN  IF Cardinality(selection) = 0
        THEN "unchecked"
        ELSE IF /\ Cardinality(selection) = Cardinality(stackAssignments)
                /\ \A k \in selection : Len(selections[k].lines) = 0
        THEN "checked"
        ELSE "indeterminate"

\* folderCheckStatus with some for every.
folderCheckStatusSomeChecked(selections, assignments, stackId, path) ==
    LET matches == SelectByPrefix(assignments, prefixKey(stackId, path))
    IN  IF Cardinality(matches) = 0
        THEN "unchecked"
        ELSE IF \E k \in matches :
                    assignmentKey(assignments[k]) \in Ids(selections)
        THEN "checked"
        ELSE "unchecked"

folderCheckStatus(selections, assignments, stackId, path) ==
    LET matches == SelectByPrefix(assignments, prefixKey(stackId, path))
    IN  IF Cardinality(matches) = 0
        THEN "unchecked"
        ELSE IF \A k \in matches :
                    assignmentKey(assignments[k]) \in Ids(selections)
        THEN "checked"
        ELSE IF \E k \in matches :
                    assignmentKey(assignments[k]) \in Ids(selections)
        THEN "indeterminate"
        ELSE "unchecked"

\* stackCheckStatus without the branch for some.
stackCheckStatusAllOrNothing(selections, assignments, stackId) ==
    LET matches == SelectByPrefix(assignments, partialKeyOfStack(stackId))
    IN  IF Cardinality(matches) = 0
        THEN "unchecked"
        ELSE IF \A k \in matches :
                    assignmentKey(assignments[k]) \in Ids(selections)
        THEN "checked"
        ELSE "unchecked"

stackCheckStatus(selections, assignments, stackId) ==
    LET matches == SelectByPrefix(assignments, partialKeyOfStack(stackId))
    IN  IF Cardinality(matches) = 0
        THEN "unchecked"
        ELSE IF \A k \in matches :
                    assignmentKey(assignments[k]) \in Ids(selections)
        THEN "checked"
        ELSE IF \E k \in matches :
                    assignmentKey(assignments[k]) \in Ids(selections)
        THEN "indeterminate"
        ELSE "unchecked"

---------------------------------------------------------------------------
(* The branch a reducer takes *)

checkLineBranch(selections, assignments, stackId, path, hunkHeader) ==
    LET key == compositeKey(stackId, path, hunkHeader)
    IN  IF key \in Ids(selections) THEN "append"
        ELSE IF key \notin Ids(assignments) THEN "throw"
        ELSE "create"

uncheckLineBranch(selections, assignments, stackId, path, hunkHeader, line, allLinesInHunk) ==
    LET key == compositeKey(stackId, path, hunkHeader)
        err == uncheckLineError(selections, assignments, stackId, path,
                                hunkHeader)
    IN  IF key \notin Ids(selections) THEN "noSelection"
        ELSE IF err # "none" THEN "throw"
        ELSE IF Len(selections[key].lines) = 0
        THEN IF Len(FilterLine(allLinesInHunk, line)) > 0
             THEN "wholeToLines" ELSE "wholeToNone"
        ELSE IF Len(FilterLine(selections[key].lines, line)) > 0
             THEN "linesToLines" ELSE "linesToNone"

\* checkHunk: whether the assignment was found, and what the upsert replaced.
checkHunkBranch(selections, assignments, stackId, path, hunkHeader) ==
    LET key == compositeKey(stackId, path, hunkHeader)
    IN  IF key \notin Ids(assignments) THEN "noAssignment"
        ELSE IF key \notin Ids(selections) THEN "insert"
        ELSE IF Len(selections[key].lines) = 0 THEN "replaceWhole"
        ELSE "replaceLines"

\* One tag for each turn of the loop over the old selections.
updateBranches(oldSelections, assignments) ==
    UNION {
        LET old == oldSelections[id]
            found == {a \in assignments :
                         NewAssignmentKey(a) = OldSelectionKey(old)}
        IN  IF found = {}
            THEN {"dropped"}
            ELSE {"relinked"}
                 \cup (IF Len(old.lines) > 0 THEN {"linesReset"} ELSE {})
                 \cup (IF \E a \in found : assignmentKey(a) # old.assignmentId
                       THEN {"rekeyed"} ELSE {})
        : id \in Ids(oldSelections)}

---------------------------------------------------------------------------
(* Dispatch *)

\* No line round trip is under way.
NoTrip ==
    [active |-> FALSE, stackId |-> Null, path |-> Null, hunkHeader |-> Null,
     lines |-> <<>>, unchecked |-> {}]

\* A dispatch whose reducer returned: only hunkSelection may have changed.
Reduced(type, branch, selections) ==
    /\ hunkSelection' = selections
    /\ lastAction' = type
    /\ branches' = {branch}
    /\ error' = "none"
    /\ UNCHANGED <<treeChanges, hunkAssignments, snapshot, appState>>

\* A dispatch whose reducer threw: the state is the one it found.
Thrown(type, branch, err) ==
    /\ lastAction' = type
    /\ branches' = {branch}
    /\ error' = err
    /\ UNCHANGED <<treeChanges, hunkAssignments, hunkSelection, snapshot,
                   appState>>

\* The dispatch itself, whatever round trip it belongs to.
Dispatched(type, branch, err, selections) ==
    IF err = "none"
    THEN Reduced(type, branch, selections)
    ELSE Thrown(type, branch, err)

\* A dispatch that is no step of a line round trip.
Dispatch(type, branch, err, selections) ==
    /\ Dispatched(type, branch, err, selections)
    /\ trip' = NoTrip

update(assignments, changes) ==
    /\ treeChanges' = TreeChangeState(changes)
    /\ hunkAssignments' = HunkAssignmentState(assignments)
    /\ hunkSelection' = updateSelections(hunkSelection, assignments)
    /\ snapshot' = [assignments |-> assignments, changes |-> changes]
    /\ lastAction' = "update"
    /\ branches' = updateBranches(hunkSelection, assignments)
    /\ error' = "none"
    /\ trip' = NoTrip
    /\ UNCHANGED appState

clearHunkSelection(stackId) ==
    Dispatch("clearHunkSelection", "removeMany", "none",
             clearHunkSelectionReducer(hunkSelection, stackId))

checkLine(stackId, path, hunkHeader, line) ==
    LET key == compositeKey(stackId, path, hunkHeader)
    IN  /\ key \in Ids(hunkSelection) =>
               Len(hunkSelection[key].lines) < MaxLines
        /\ Dispatch("checkLine",
                    checkLineBranch(hunkSelection, hunkAssignments,
                                    stackId, path, hunkHeader),
                    checkLineError(hunkSelection, hunkAssignments,
                                   stackId, path, hunkHeader),
                    checkLineReducer(hunkSelection, hunkAssignments,
                                     stackId, path, hunkHeader, line))

uncheckLine(stackId, path, hunkHeader, line, allLinesInHunk) ==
    Dispatch("uncheckLine",
             uncheckLineBranch(hunkSelection, hunkAssignments, stackId, path,
                               hunkHeader, line, allLinesInHunk),
             uncheckLineError(hunkSelection, hunkAssignments,
                              stackId, path, hunkHeader),
             uncheckLineReducer(hunkSelection, stackId, path, hunkHeader,
                                line, allLinesInHunk))

\* checkHunk that throws, as checkLine does, when it finds no assignment.
checkHunkThrowing(stackId, path, hunkHeader) ==
    Dispatch("checkHunk",
             checkHunkBranch(hunkSelection, hunkAssignments,
                             stackId, path, hunkHeader),
             IF compositeKey(stackId, path, hunkHeader)
                    \in Ids(hunkAssignments)
             THEN "none" ELSE "ExpectedAssignment",
             checkHunkReducer(hunkSelection, hunkAssignments,
                              stackId, path, hunkHeader))

checkHunk(stackId, path, hunkHeader) ==
    Dispatch("checkHunk",
             checkHunkBranch(hunkSelection, hunkAssignments,
                             stackId, path, hunkHeader),
             "none",
             checkHunkReducer(hunkSelection, hunkAssignments,
                              stackId, path, hunkHeader))

uncheckHunk(stackId, path, hunkHeader) ==
    Dispatch("uncheckHunk", "removeOne", "none",
             uncheckHunkReducer(hunkSelection, stackId, path, hunkHeader))

checkFile(stackId, path) ==
    Dispatch("checkFile", "upsert", "none",
             checkFileReducer(hunkSelection, hunkAssignments, stackId, path))

uncheckFile(stackId, path) ==
    Dispatch("uncheckFile", "removeMany", "none",
             uncheckFileReducer(hunkSelection, stackId, path))

checkDir(stackId, path) ==
    Dispatch("checkDir", "upsert", "none",
             checkDirReducer(hunkSelection, hunkAssignments, stackId, path))

uncheckDir(stackId, path) ==
    Dispatch("uncheckDir", "removeMany", "none",
             uncheckDirReducer(hunkSelection, stackId, path))

checkStack(stackId) ==
    Dispatch("checkStack", "upsert", "none",
             checkStackReducer(hunkSelection, hunkAssignments, stackId))

uncheckStack(stackId) ==
    Dispatch("uncheckStack", "removeMany", "none",
             uncheckStackReducer(hunkSelection, stackId))

---------------------------------------------------------------------------
(* Inputs *)

AssignmentUniverse ==
    {HunkAssignment(id, stackId, path, hunkHeader) :
        id \in StableIds \cup {Null}, stackId \in StackIds,
        path \in Paths, hunkHeader \in AssignmentHeaders}

\* A snapshot as the host computes it: every hunk of the worktree is assigned
\* once (to a stack, or to none), so no two assignments share a path and a
\* hunk header; a file without hunks has one whole-file assignment and no
\* other; no two assignments share a stable id.
WellFormed(assignments) ==
    \A a, b \in assignments :
        a # b =>
            /\ a.path # b.path \/ a.hunkHeader # b.hunkHeader
            /\ a.path = b.path => a.hunkHeader # Null /\ b.hunkHeader # Null
            /\ a.id = Null \/ a.id # b.id

\* The subsets of S of at most n elements.
RECURSIVE SubsetsUpTo(_, _)
SubsetsUpTo(S, n) ==
    IF n = 0
    THEN {{}}
    ELSE LET smaller == SubsetsUpTo(S, n - 1)
         IN  smaller \cup {t \cup {a} : t \in smaller, a \in S}

\* A well-formed snapshot holds at most one assignment for each hunk header.
Snapshots ==
    {assignments \in
        SubsetsUpTo(AssignmentUniverse,
                    Cardinality(Paths) * Cardinality(HunkHeaders)) :
        WellFormed(assignments)}

\* The host reports one tree change for each file that has an assignment.
ChangesOf(assignments, status) ==
    {TreeChange(path, status) : path \in {a.path : a \in assignments}}

\* allLinesInHunk as the caller passes it: the lines of a hunk, no line twice.
HunkLines ==
    {<<>>, <<L1>>, <<L1, L2>>, <<L2, L1>>}

---------------------------------------------------------------------------
(* Specification *)

Init ==
    /\ treeChanges = EmptyState
    /\ hunkAssignments = EmptyState
    /\ hunkSelection = EmptyState
    /\ snapshot = [assignments |-> {}, changes |-> {}]
    /\ trip = NoTrip
    /\ lastAction = "init"
    /\ branches = {}
    /\ error = "none"
    /\ store = [examples |-> "initial", posts |-> "initial",
                feeds |-> "initial"]
    /\ rootState = [value |-> store, subscribers |-> {}]
    /\ streams = [stream \in {"example", "posts", "feeds"} |-> {}]
    /\ received = <<>>

Next ==
    \/ \E assignments \in Snapshots, status \in Statuses :
           update(assignments, ChangesOf(assignments, status))
    \/ \E stackId \in StackIds : clearHunkSelection(stackId)
    \/ \E stackId \in StackIds, path \in Paths,
          hunkHeader \in AssignmentHeaders, line \in LineIds :
           checkLine(stackId, path, hunkHeader, line)
    \/ \E stackId \in StackIds, path \in Paths,
          hunkHeader \in AssignmentHeaders, line \in LineIds,
          allLinesInHunk \in HunkLines :
           uncheckLine(stackId, path, hunkHeader, line, allLinesInHunk)
    \/ \E stackId \in StackIds, path \in Paths,
          hunkHeader \in AssignmentHeaders :
           checkHunk(stackId, path, hunkHeader)
    \/ \E stackId \in StackIds, path \in Paths,
          hunkHeader \in AssignmentHeaders :
           uncheckHunk(stackId, path, hunkHeader)
    \/ \E stackId \in StackIds, path \in Paths : checkFile(stackId, path)
    \/ \E stackId \in StackIds, path \in Paths : uncheckFile(stackId, path)
    \/ \E stackId \in StackIds, path \in Paths : checkDir(stackId, path)
    \/ \E stackId \in StackIds, path \in Paths : uncheckDir(stackId, path)
    \/ \E stackId \in StackIds : checkStack(stackId)
    \/ \E stackId \in StackIds : uncheckStack(stackId)

Spec == Init /\ [][Next]_vars

---------------------------------------------------------------------------
(* The line round trip: checkHunk for a hunk, then uncheckLine for its     *)
(* lines one at a time, each with all the lines of the hunk.               *)

LineIds3 == {L1, L2, L3}

\* The lines of a hunk, in hunk order: up to three lines, no line twice.
TripHunkLines ==
    {lines \in {<<l>> : l \in LineIds3}
                  \cup (LineIds3 \X LineIds3)
                  \cup (LineIds3 \X LineIds3 \X LineIds3) :
        \A i, j \in DOMAIN lines : i # j => lines[i] # lines[j]}

Range(seq) == {seq[i] : i \in DOMAIN seq}

tripCheckHunk(stackId, path, hunkHeader, lines) ==
    /\ compositeKey(stackId, path, hunkHeader) \in Ids(hunkAssignments)
    /\ Dispatched("checkHunk",
                  checkHunkBranch(hunkSelection, hunkAssignments,
                                  stackId, path, hunkHeader),
                  "none",
                  checkHunkReducer(hunkSelection, hunkAssignments,
                                   stackId, path, hunkHeader))
    /\ trip' = [active |-> TRUE, stackId |-> stackId, path |-> path,
                hunkHeader |-> hunkHeader, lines |-> lines,
                unchecked |-> {}]

tripUncheckLine(line) ==
    /\ trip.active
    /\ line \in Range(trip.lines) \ trip.unchecked
    /\ Dispatched("uncheckLine",
                  uncheckLineBranch(hunkSelection, hunkAssignments,
                                    trip.stackId, trip.path, trip.hunkHeader,
                                    line, trip.lines),
                  uncheckLineError(hunkSelection, hunkAssignments,
                                   trip.stackId, trip.path, trip.hunkHeader),
                  uncheckLineReducer(hunkSelection, trip.stackId, trip.path,
                                     trip.hunkHeader, line, trip.lines))
    /\ trip' = [trip EXCEPT !.unchecked = @ \cup {line}]

NextRoundTrip ==
    \/ \E assignments \in Snapshots, status \in Statuses :
           update(assignments, ChangesOf(assignments, status))
    \/ \E stackId \in StackIds, path \in Paths, hunkHeader \in HunkHeaders,
          lines \in TripHunkLines :
           tripCheckHunk(stackId, path, hunkHeader, lines)
    \/ \E line \in LineIds3 : tripUncheckLine(line)

SpecRoundTrip == Init /\ [][NextRoundTrip]_vars

---------------------------------------------------------------------------
(* Files whose paths share leading characters, in two stacks whose ids do: *)
(* the file f or the directory f with the file f/a in it, next to the file *)
(* f2; stack a and stack ab.  f2 has two hunks, the others one.            *)

WideStackIds == {<<"a">>, <<"a", "b">>}

Separator == <<"/">>

WidePaths == {<<"f">>, <<"f">> \o Separator \o <<"a">>, <<"f", "2">>}

WideAssignmentUniverse ==
    {HunkAssignment(Null, stackId, path, H1) :
        stackId \in WideStackIds, path \in WidePaths}
        \cup {HunkAssignment(Null, stackId, <<"f", "2">>, H2) :
                  stackId \in WideStackIds}

\* A snapshot of one worktree: a path is not both a file and a directory.
WideWellFormed(assignments) ==
    /\ WellFormed(assignments)
    /\ \A a, b \in assignments :
           ~StartsWith(b.path, a.path \o Separator)

\* f and f/a exclude each other, so a snapshot has at most three hunks.
WideSnapshots ==
    {assignments \in
        SubsetsUpTo(WideAssignmentUniverse, Cardinality(WidePaths)) :
        WideWellFormed(assignments)}

NextWide ==
    \/ \E assignments \in WideSnapshots, status \in Statuses :
           update(assignments, ChangesOf(assignments, status))
    \/ \E stackId \in WideStackIds : clearHunkSelection(stackId)
    \/ \E stackId \in WideStackIds, path \in WidePaths,
          hunkHeader \in HunkHeaders :
           checkLine(stackId, path, hunkHeader, L1)
    \/ \E stackId \in WideStackIds, path \in WidePaths,
          hunkHeader \in HunkHeaders :
           uncheckHunk(stackId, path, hunkHeader)
    \/ \E stackId \in WideStackIds, path \in WidePaths :
           checkFile(stackId, path)
    \/ \E stackId \in WideStackIds, path \in WidePaths :
           uncheckFile(stackId, path)
    \/ \E stackId \in WideStackIds, path \in WidePaths :
           checkDir(stackId, path)
    \/ \E stackId \in WideStackIds, path \in WidePaths :
           uncheckDir(stackId, path)
    \/ \E stackId \in WideStackIds : checkStack(stackId)
    \/ \E stackId \in WideStackIds : uncheckStack(stackId)

SpecWide == Init /\ [][NextWide]_vars

---------------------------------------------------------------------------
(* A file with two hunks and nothing selected: checkHunk for one hunk,     *)
(* checkHunk for the other, uncheckHunk for the first, uncheckHunk for the *)
(* second.  trip.hunkHeader is the first hunk, trip.step the steps taken.  *)

OtherHunk(hunkHeader) == CHOOSE h \in HunkHeaders : h # hunkHeader

twoHunksCheckFirst(stackId, path, hunkHeader) ==
    /\ SelectByPrefix(hunkAssignments, partialKey(stackId, path))
           = {compositeKey(stackId, path, h) : h \in HunkHeaders}
    /\ SelectByPrefix(hunkSelection, partialKey(stackId, path)) = {}
    /\ Dispatched("checkHunk",
                  checkHunkBranch(hunkSelection, hunkAssignments,
                                  stackId, path, hunkHeader),
                  "none",
                  checkHunkReducer(hunkSelection, hunkAssignments,
                                   stackId, path, hunkHeader))
    /\ trip' = [active |-> TRUE, stackId |-> stackId, path |-> path,
                hunkHeader |-> hunkHeader, lines |-> <<>>,
                unchecked |-> {}, step |-> 1]

twoHunksCheckSecond ==
    /\ trip.active
    /\ trip.step = 1
    /\ Dispatched("checkHunk",
                  checkHunkBranch(hunkSelection, hunkAssignments, trip.stackId,
                                  trip.path, OtherHunk(trip.hunkHeader)),
                  "none",
                  checkHunkReducer(hunkSelection, hunkAssignments, trip.stackId,
                                   trip.path, OtherHunk(trip.hunkHeader)))
    /\ trip' = [trip EXCEPT !.step = 2]

twoHunksUncheckFirst ==
    /\ trip.active
    /\ trip.step = 2
    /\ Dispatched("uncheckHunk", "removeOne", "none",
                  uncheckHunkReducer(hunkSelection, trip.stackId, trip.path,
                                     trip.hunkHeader))
    /\ trip' = [trip EXCEPT !.step = 3]

twoHunksUncheckSecond ==
    /\ trip.active
    /\ trip.step = 3
    /\ Dispatched("uncheckHunk", "removeOne", "none",
                  uncheckHunkReducer(hunkSelection, trip.stackId, trip.path,
                                     OtherHunk(trip.hunkHeader)))
    /\ trip' = [trip EXCEPT !.step = 4]

NextTwoHunks ==
    \/ \E assignments \in Snapshots, status \in Statuses :
           update(assignments, ChangesOf(assignments, status))
    \/ \E stackId \in StackIds, path \in Paths, hunkHeader \in HunkHeaders :
           twoHunksCheckFirst(stackId, path, hunkHeader)
    \/ twoHunksCheckSecond
    \/ twoHunksUncheckFirst
    \/ twoHunksUncheckSecond

SpecTwoHunks == Init /\ [][NextTwoHunks]_vars

---------------------------------------------------------------------------
(* AppState: the application store and the streams that publish it.        *)
(*                                                                         *)
(* A readable stream holds a value; a subscriber is handed the held value  *)
(* when it subscribes and every value set while it is subscribed.  The     *)
(* start function of the stream runs when the first subscriber arrives and *)
(* its stop function when the last one leaves.  A derived stream           *)
(* subscribes to its source while it has a subscriber of its own and       *)
(* holds the selector's result for the value the source handed it.  The    *)
(* store calls its listeners after every dispatch.                         *)

\* The states of one slice of the store; the first is its initial state.
SliceStates == {"initial", "changed"}

RootStates == [examples : SliceStates, posts : SliceStates, feeds : SliceStates]

\* The consumers that subscribe to the streams.
Subscribers == {"s1", "s2"}

\* The streams derived from rootState.
DerivedStreams == {"example", "posts", "feeds"}

selectExample(state) == state.examples

selectPosts(state) == state.posts

selectFeeds(state) == state.feeds

\* The selector of a derived stream, applied.
Selected(stream, state) ==
    CASE stream = "example" -> selectExample(state)
      [] stream = "posts" -> selectPosts(state)
      [] stream = "feeds" -> selectFeeds(state)

\* What a stream hands out when rootState holds the value.
Handed(stream, value) ==
    IF stream = "rootState" THEN value ELSE Selected(stream, value)

\* store.subscribe: the listener of rootState is registered while rootState
\* has a subscriber, a consumer or a derived stream.
Listening == rootState.subscribers # {}

\* A subscriber is handed the value the stream holds.
Run(stream, s, value) ==
    [p \in DOMAIN received \cup {<<stream, s>>} |->
        IF p = <<stream, s>> THEN Handed(stream, value) ELSE received[p]]

\* set(value) of rootState: every subscriber is handed the value, the
\* subscribers of the derived streams the selected part of it.
Set(value) == [p \in DOMAIN received |-> Handed(p[1], value)]

\* appDispatch.dispatch(action): the root reducer returns the next state and
\* the store calls its listeners.
dispatch(next) ==
    /\ store' = next
    /\ IF Listening
       THEN /\ rootState' = [rootState EXCEPT !.value = next]
            /\ received' = Set(next)
       ELSE UNCHANGED <<rootState, received>>
    /\ UNCHANGED <<streams, uncommitted>>

\* rootState.subscribe(run)
subscribeRootState(s) ==
    /\ s \notin rootState.subscribers
    /\ rootState' = [rootState EXCEPT !.subscribers = @ \cup {s}]
    /\ received' = Run("rootState", s, rootState.value)
    /\ UNCHANGED <<store, streams, uncommitted>>

\* The function rootState.subscribe(run) returned.
unsubscribeRootState(s) ==
    /\ s \in rootState.subscribers \cap Subscribers
    /\ rootState' = [rootState EXCEPT !.subscribers = @ \ {s}]
    /\ received' = [p \in DOMAIN received \ {<<"rootState", s>>} |-> received[p]]
    /\ UNCHANGED <<store, streams, uncommitted>>

\* example.subscribe(run), posts.subscribe(run), feeds.subscribe(run): the
\* first subscriber of a derived stream makes it subscribe to rootState.
subscribeDerived(stream, s) ==
    /\ s \notin streams[stream]
    /\ streams' = [streams EXCEPT ![stream] = @ \cup {s}]
    /\ rootState' = [rootState EXCEPT !.subscribers = @ \cup {stream}]
    /\ received' = Run(stream, s, rootState.value)
    /\ UNCHANGED <<store, uncommitted>>

\* The function the subscribe of a derived stream returned: the stream
\* leaves rootState with its last subscriber.
unsubscribeDerived(stream, s) ==
    /\ s \in streams[stream]
    /\ streams' = [streams EXCEPT ![stream] = @ \ {s}]
    /\ rootState' = IF streams[stream] = {s}
                    THEN [rootState EXCEPT !.subscribers = @ \ {stream}]
                    ELSE rootState
    /\ received' = [p \in DOMAIN received \ {<<stream, s>>} |-> received[p]]
    /\ UNCHANGED <<store, uncommitted>>

NextAppState ==
    \/ \E next \in RootStates : dispatch(next)
    \/ \E s \in Subscribers : subscribeRootState(s)
    \/ \E s \in Subscribers : unsubscribeRootState(s)
    \/ \E stream \in DerivedStreams, s \in Subscribers :
           subscribeDerived(stream, s)
    \/ \E stream \in DerivedStreams, s \in Subscribers :
           unsubscribeDerived(stream, s)

SpecAppState == Init /\ [][NextAppState]_vars

---------------------------------------------------------------------------
(* Claims *)

\* What the claims say of a dispatch is said of every step that is that
\* dispatch for some payload.

SameLine(l, line) == l.oldLine = line.oldLine /\ l.newLine = line.newLine

\* lines without every occurrence of line, in order.
Without(lines, line) == SelectSeq(lines, LAMBDA l : ~SameLine(l, line))

StateUnchanged == UNCHANGED <<treeChanges, hunkAssignments, hunkSelection>>

\* C1: every selection is held under the composite key of an assignment that
\* is in the assignment collection, and so the assignment lookup of
\* uncheckLine fails for no payload.
C1_SelectionHasAssignment ==
    /\ \A id \in Ids(hunkSelection) :
           /\ hunkSelection[id].assignmentId = id
           /\ id \in Ids(hunkAssignments)
           /\ assignmentKey(hunkAssignments[id]) = id
    /\ \A stackId \in StackIds, path \in Paths,
          hunkHeader \in AssignmentHeaders :
           uncheckLineError(hunkSelection, hunkAssignments,
                            stackId, path, hunkHeader) # "ExpectedAssignment"

\* An update has dropped one selection and relinked another.
C1_Witness ==
    /\ lastAction = "update"
    /\ {"dropped", "relinked"} \subseteq branches
    /\ Ids(hunkSelection) # {}

\* An old selection and a new assignment share a stable id.
SharesStableId(old, a) == old.stableId # Null /\ a.id = old.stableId

\* Neither has a stable id and they have one composite key.
SharesCompositeKey(old, a) ==
    old.stableId = Null /\ a.id = Null /\ assignmentKey(a) = old.assignmentId

\* The new assignments that share the stable id of an old selection.
MatchedByStableId ==
    {a \in snapshot'.assignments :
        \E id \in Ids(hunkSelection) : SharesStableId(hunkSelection[id], a)}

\* Those, and the new assignments that share the composite key of an old
\* selection without stable id.
MatchedByStableIdOrKey ==
    {a \in snapshot'.assignments :
        \E id \in Ids(hunkSelection) :
            \/ SharesStableId(hunkSelection[id], a)
            \/ SharesCompositeKey(hunkSelection[id], a)}

\* An update leaves the selections under the keys of the matched assignments,
\* all with no lines, and no other selection.
UpdateLeaves(matched) ==
    lastAction' = "update" =>
        /\ Ids(hunkSelection') = {assignmentKey(a) : a \in matched}
        /\ \A k \in Ids(hunkSelection') : hunkSelection'[k].lines = <<>>

C3_CollectionsAreLastSnapshot ==
    /\ {treeChanges[p] : p \in Ids(treeChanges)} = snapshot.changes
    /\ \A p \in Ids(treeChanges) : treeChanges[p].path = p
    /\ {hunkAssignments[k] : k \in Ids(hunkAssignments)} = snapshot.assignments
    /\ \A k \in Ids(hunkAssignments) : assignmentKey(hunkAssignments[k]) = k

\* A later update has replaced a snapshot that had a selected assignment by
\* one that has none for it, and a reducer has run on the new one.
C3_Witness ==
    /\ lastAction = "checkStack"
    /\ Ids(hunkSelection) # {}
    /\ Cardinality(snapshot.assignments) = 1
    /\ Ids(treeChanges) # {}

\* With no selection for the key, checkLine returns a selection of exactly
\* that line under the key and the other selections as they are if the key
\* has an assignment, and throws if it has none.
CheckLineWithoutSelection ==
    \A stackId \in StackIds, path \in Paths,
       hunkHeader \in AssignmentHeaders, line \in LineIds :
        LET key == compositeKey(stackId, path, hunkHeader)
            err == checkLineError(hunkSelection, hunkAssignments,
                                  stackId, path, hunkHeader)
        IN  key \notin Ids(hunkSelection) =>
                IF key \in Ids(hunkAssignments)
                THEN LET after == checkLineReducer(hunkSelection,
                                      hunkAssignments, stackId, path,
                                      hunkHeader, line)
                     IN  /\ err = "none"
                         /\ Ids(after) = Ids(hunkSelection) \cup {key}
                         /\ after[key].lines = <<line>>
                         /\ after[key].assignmentId = key
                         /\ \A k \in Ids(hunkSelection) :
                                after[k] = hunkSelection[k]
                ELSE err = "ExpectedAssignment"

\* A checkLine that returns changes the selections only, and one that
\* throws changes nothing.
CheckLineFrame ==
    lastAction' = "checkLine" =>
        /\ UNCHANGED <<treeChanges, hunkAssignments>>
        /\ error' # "none" => StateUnchanged

\* C4: checkLine for a key without a selection creates, if the key has an
\* assignment, a selection of exactly that line and changes nothing else;
\* if it has none, it throws and the state is as before.
C4_CheckLineCreatesOrThrows ==
    []CheckLineWithoutSelection /\ [][CheckLineFrame]_vars

\* checkLine has thrown for a key without assignment while another hunk was
\* selected.
C4_Witness ==
    /\ lastAction = "checkLine"
    /\ branches = {"throw"}
    /\ error = "ExpectedAssignment"
    /\ Ids(hunkSelection) # {}

\* C5: uncheckLine for a selected hunk takes the line out of all the lines
\* of the hunk if the selection has no lines, out of the selection's lines
\* otherwise; it removes the selection if no line is left, and so leaves no
\* selection without lines; the other selections stay.  (An assignment
\* without hunk header is C9's.)
C5_UncheckLineRemovesLine ==
    \A stackId \in StackIds, path \in Paths, hunkHeader \in HunkHeaders,
       line \in LineIds, allLinesInHunk \in HunkLines :
        LET key == compositeKey(stackId, path, hunkHeader)
        IN  key \in Ids(hunkSelection) =>
                LET old == hunkSelection[key].lines
                    left == IF old = <<>>
                            THEN Without(allLinesInHunk, line)
                            ELSE Without(old, line)
                    after == uncheckLineReducer(hunkSelection, stackId, path,
                                 hunkHeader, line, allLinesInHunk)
                IN  /\ uncheckLineError(hunkSelection, hunkAssignments,
                                        stackId, path, hunkHeader) = "none"
                    /\ IF left = <<>>
                       THEN Ids(after) = Ids(hunkSelection) \ {key}
                       ELSE /\ Ids(after) = Ids(hunkSelection)
                            /\ after[key].lines = left
                    /\ key \in Ids(after) => after[key].lines # <<>>
                    /\ \A k \in Ids(after) \ {key} :
                           after[k] = hunkSelection[k]

\* uncheckLine has turned a whole-hunk selection into the hunk's other lines.
C5_Witness ==
    /\ lastAction = "uncheckLine"
    /\ branches = {"wholeToLines"}
    /\ \E id \in Ids(hunkSelection) : Len(hunkSelection[id].lines) > 0

\* C6: in a round trip over a hunk with lines L, after checkHunk the whole
\* hunk is selected, after each uncheckLine the selection holds exactly the
\* lines of L not yet unchecked, in hunk order, and after the last one the
\* hunk has no selection; no step throws.
C6_LineRoundTrip ==
    trip.active =>
        LET status == hunkCheckStatus(hunkSelection, trip.stackId, trip.path,
                                      trip.hunkHeader)
            left == SelectSeq(trip.lines, LAMBDA l : l \notin trip.unchecked)
        IN  /\ error = "none"
            /\ IF trip.unchecked = {}
               THEN status = [selected |-> TRUE, lines |-> <<>>]
               ELSE IF left = <<>>
               THEN ~status.selected
               ELSE status = [selected |-> TRUE, lines |-> left]

\* A round trip over three lines has unchecked the first two, and the third
\* is what the selection holds.
C6_Witness ==
    /\ trip.active
    /\ trip.lines = <<L1, L2, L3>>
    /\ trip.unchecked = {L1, L2}
    /\ branches = {"linesToLines"}
    /\ hunkCheckStatus(hunkSelection, trip.stackId, trip.path,
                       trip.hunkHeader).lines = <<L3>>

\* C7: checkHunk a second time returns what the first returned, and after
\* it the hunk is selected with no lines if it has an assignment, whatever
\* selection it had.
C7_CheckHunkIdempotent ==
    \A stackId \in StackIds, path \in Paths,
       hunkHeader \in AssignmentHeaders :
        LET once == checkHunkReducer(hunkSelection, hunkAssignments,
                                     stackId, path, hunkHeader)
            twice == checkHunkReducer(once, hunkAssignments,
                                      stackId, path, hunkHeader)
        IN  /\ twice = once
            /\ compositeKey(stackId, path, hunkHeader)
                   \in Ids(hunkAssignments) =>
                   hunkCheckStatus(once, stackId, path, hunkHeader)
                       = [selected |-> TRUE, lines |-> <<>>]

\* checkHunk has replaced a selection of some lines, and no selection is
\* left with lines.
C7_Witness ==
    /\ lastAction = "checkHunk"
    /\ branches = {"replaceLines"}
    /\ \A id \in Ids(hunkSelection) : hunkSelection[id].lines = <<>>

\* checkHunk for a key without assignment returns the selections it found.
CheckHunkWithoutAssignment ==
    \A stackId \in StackIds, path \in Paths,
       hunkHeader \in AssignmentHeaders :
        compositeKey(stackId, path, hunkHeader) \notin Ids(hunkAssignments) =>
            checkHunkReducer(hunkSelection, hunkAssignments,
                             stackId, path, hunkHeader) = hunkSelection

\* checkHunk throws nothing and changes the selections only.
CheckHunkFrame ==
    lastAction' = "checkHunk" =>
        /\ error' = "none"
        /\ UNCHANGED <<treeChanges, hunkAssignments>>

\* C8: checkHunk for a key without assignment throws nothing and leaves
\* tree changes, assignments and selections as they are.
C8_CheckHunkWithoutAssignmentNoOp ==
    []CheckHunkWithoutAssignment /\ [][CheckHunkFrame]_vars

\* checkHunk has found no assignment while another hunk was selected.
C8_Witness ==
    /\ lastAction = "checkHunk"
    /\ branches = {"noAssignment"}
    /\ error = "none"
    /\ Ids(hunkSelection) # {}

\* C9 as stated: every uncheckLine for the key of an assignment without
\* hunk header throws 'Not implemented'.
C9_WholeFileAlwaysThrows ==
    [][\A stackId \in StackIds, path \in Paths, line \in LineIds,
          allLinesInHunk \in HunkLines :
           LET key == compositeKey(stackId, path, Null)
           IN  (/\ lastAction' = "uncheckLine"
                /\ key \in Ids(hunkAssignments)
                /\ hunkAssignments[key].hunkHeader = Null
                /\ uncheckLine(stackId, path, Null, line, allLinesInHunk)) =>
                   /\ error' = "NotImplemented"
                   /\ StateUnchanged]_vars

\* For the key of an assignment without hunk header, uncheckLine throws
\* 'Not implemented' if the key has a selection and returns the selections
\* it found if not.
UncheckLineOfWholeFile ==
    \A stackId \in StackIds, path \in Paths, line \in LineIds,
       allLinesInHunk \in HunkLines :
        LET key == compositeKey(stackId, path, Null)
            err == uncheckLineError(hunkSelection, hunkAssignments,
                                    stackId, path, Null)
        IN  (key \in Ids(hunkAssignments)
                 /\ hunkAssignments[key].hunkHeader = Null) =>
                IF key \in Ids(hunkSelection)
                THEN err = "NotImplemented"
                ELSE /\ err = "none"
                     /\ uncheckLineReducer(hunkSelection, stackId, path, Null,
                                           line, allLinesInHunk)
                            = hunkSelection

\* An uncheckLine that throws changes nothing.
UncheckLineFrame ==
    (lastAction' = "uncheckLine" /\ error' # "none") => StateUnchanged

\* C9 amended: uncheckLine for the key of an assignment without hunk header
\* throws 'Not implemented' and changes nothing when that key has a
\* selection; when it has none, it throws nothing and changes nothing.
C9_SelectedWholeFileThrows ==
    []UncheckLineOfWholeFile /\ [][UncheckLineFrame]_vars

\* uncheckLine has thrown 'Not implemented' for a selected whole file.
C9_Witness ==
    /\ lastAction = "uncheckLine"
    /\ error = "NotImplemented"
    /\ \E id \in Ids(hunkSelection) : hunkAssignments[id].hunkHeader = Null

TotalReducers ==
    {"update", "clearHunkSelection", "checkHunk", "uncheckHunk", "checkFile",
     "uncheckFile", "checkDir", "uncheckDir", "checkStack", "uncheckStack"}

\* C10: a dispatch of any action but checkLine and uncheckLine throws
\* nothing.
C10_OtherReducersTotal ==
    lastAction \in TotalReducers => error = "none"

\* checkStack has returned for a stack without assignments, while the other
\* stack has a selection.
C10_Witness ==
    /\ lastAction = "checkStack"
    /\ error = "none"
    /\ snapshot.assignments # {}
    /\ \E stackId \in StackIds :
           /\ \A a \in snapshot.assignments : a.stackId # stackId
           /\ \A id \in Ids(hunkSelection) :
                  hunkSelection[id].stackId # stackId
    /\ Ids(hunkSelection) # {}

\* The keys of the assignments of a file in a stack.
AssignmentsOfFile(stackId, path) ==
    {k \in Ids(hunkAssignments) :
        /\ hunkAssignments[k].stackId = stackId
        /\ hunkAssignments[k].path = path}

\* The assignment has a selection with no lines.
WholeSelected(k) ==
    k \in Ids(hunkSelection) /\ hunkSelection[k].lines = <<>>

\* C11 as stated: fileCheckStatus is 'checked' exactly if every assignment of
\* the file in the stack has a selection with no lines, also when the file
\* has no assignment there.
C11_CheckedIffAllWhole ==
    \A stackId \in WideStackIds, path \in WidePaths :
        fileCheckStatus(hunkSelection, hunkAssignments, stackId, path)
                = "checked"
            <=> \A k \in AssignmentsOfFile(stackId, path) : WholeSelected(k)

\* C11 amended: fileCheckStatus is 'checked' exactly if the file has an
\* assignment in the stack and every such assignment has a selection with no
\* lines.
C11_CheckedIffSomeAndAllWhole ==
    \A stackId \in WideStackIds, path \in WidePaths :
        fileCheckStatus(hunkSelection, hunkAssignments, stackId, path)
                = "checked"
            <=> /\ AssignmentsOfFile(stackId, path) # {}
                /\ \A k \in AssignmentsOfFile(stackId, path) :
                       WholeSelected(k)

\* One file is checked while another has a selection of some lines.
C11_Witness ==
    /\ \E stackId \in WideStackIds, path \in WidePaths :
           fileCheckStatus(hunkSelection, hunkAssignments, stackId, path)
               = "checked"
    /\ \E k \in Ids(hunkSelection) : hunkSelection[k].lines # <<>>

\* The keys of the assignments of a stack whose path starts with the path.
AssignmentsOfFolder(stackId, path) ==
    {k \in Ids(hunkAssignments) :
        /\ hunkAssignments[k].stackId = stackId
        /\ StartsWith(hunkAssignments[k].path, path)}

\* The keys of the assignments of a stack.
AssignmentsOfStack(stackId) ==
    {k \in Ids(hunkAssignments) : hunkAssignments[k].stackId = stackId}

\* 'checked' if every one of the assignments has a selection, 'unchecked' if
\* none has, 'indeterminate' otherwise; lines are not looked at.
StatusIsAllOrNone(status, matches) ==
    /\ status \in {"checked", "indeterminate", "unchecked"}
    /\ status = "checked" <=> \A k \in matches : k \in Ids(hunkSelection)
    /\ status = "unchecked" <=> \A k \in matches : k \notin Ids(hunkSelection)

\* The same, with 'checked' only if there is an assignment.
StatusIsSomeAndAllOrNone(status, matches) ==
    /\ status \in {"checked", "indeterminate", "unchecked"}
    /\ status = "checked" <=>
           matches # {} /\ \A k \in matches : k \in Ids(hunkSelection)
    /\ status = "unchecked" <=> \A k \in matches : k \notin Ids(hunkSelection)

\* A hunk with some lines selected makes its file 'indeterminate'.
LinesMakeFileIndeterminate ==
    \A k \in Ids(hunkSelection) :
        hunkSelection[k].lines # <<>> =>
            fileCheckStatus(hunkSelection, hunkAssignments,
                            hunkAssignments[k].stackId,
                            hunkAssignments[k].path) = "indeterminate"

\* C12 as stated: folderCheckStatus and stackCheckStatus are 'checked'
\* exactly if every matching assignment has a selection, 'unchecked' exactly
\* if none has, 'indeterminate' otherwise.
C12_FolderStackAllOrNone ==
    /\ \A stackId \in WideStackIds, path \in WidePaths :
           StatusIsAllOrNone(
               folderCheckStatus(hunkSelection, hunkAssignments,
                                 stackId, path),
               AssignmentsOfFolder(stackId, path))
    /\ \A stackId \in WideStackIds :
           StatusIsAllOrNone(
               stackCheckStatus(hunkSelection, hunkAssignments, stackId),
               AssignmentsOfStack(stackId))
    /\ LinesMakeFileIndeterminate

\* C12 amended: folderCheckStatus and stackCheckStatus are 'checked' exactly
\* if some assignment matches and every matching assignment has a selection,
\* whatever its lines; 'unchecked' exactly if no matching assignment has a
\* selection; 'indeterminate' otherwise.  A hunk with some lines selected
\* counts as selected here and makes its file 'indeterminate'.
C12_FolderStackSomeAndAllOrNone ==
    /\ \A stackId \in WideStackIds, path \in WidePaths :
           StatusIsSomeAndAllOrNone(
               folderCheckStatus(hunkSelection, hunkAssignments,
                                 stackId, path),
               AssignmentsOfFolder(stackId, path))
    /\ \A stackId \in WideStackIds :
           StatusIsSomeAndAllOrNone(
               stackCheckStatus(hunkSelection, hunkAssignments, stackId),
               AssignmentsOfStack(stackId))
    /\ LinesMakeFileIndeterminate

\* A folder is 'checked' through a hunk of which some lines are selected,
\* and a stack is 'indeterminate'.
C12_Witness ==
    /\ \E stackId \in WideStackIds, path \in WidePaths :
           /\ folderCheckStatus(hunkSelection, hunkAssignments,
                                stackId, path) = "checked"
           /\ \E k \in AssignmentsOfFolder(stackId, path) :
                  hunkSelection[k].lines # <<>>
    /\ \E stackId \in WideStackIds :
           stackCheckStatus(hunkSelection, hunkAssignments, stackId)
               = "indeterminate"

\* Some selection is held under a key that starts with the prefix.
SelectionUnder(prefix) ==
    \E k \in Ids(hunkSelection) : StartsWith(k, prefix)

CheckboxStatus == {"checked", "indeterminate", "unchecked"}

\* C13: the status of a file, of a directory and of a stack is one of
\* 'checked', 'indeterminate' and 'unchecked', and is 'unchecked' exactly if
\* no selection is held under a key that lies under the prefix of the file,
\* the directory or the stack.
C13_UncheckedIffNoSelectionUnder ==
    /\ \A stackId \in WideStackIds, path \in WidePaths :
           LET file == fileCheckStatus(hunkSelection, hunkAssignments,
                                       stackId, path)
               folder == folderCheckStatus(hunkSelection, hunkAssignments,
                                           stackId, path)
           IN  /\ file \in CheckboxStatus
               /\ file = "unchecked" <=>
                      ~SelectionUnder(partialKey(stackId, path))
               /\ folder \in CheckboxStatus
               /\ folder = "unchecked" <=>
                      ~SelectionUnder(prefixKey(stackId, path))
    /\ \A stackId \in WideStackIds :
           LET stack == stackCheckStatus(hunkSelection, hunkAssignments,
                                         stackId)
           IN  /\ stack \in CheckboxStatus
               /\ stack = "unchecked" <=>
                      ~SelectionUnder(partialKeyOfStack(stackId))

\* One stack has assignments and is 'unchecked' while the other stack is
\* 'indeterminate'.
C13_Witness ==
    \E stackId \in WideStackIds, other \in WideStackIds :
        /\ AssignmentsOfStack(stackId) # {}
        /\ stackCheckStatus(hunkSelection, hunkAssignments, stackId)
               = "unchecked"
        /\ stackCheckStatus(hunkSelection, hunkAssignments, other)
               = "indeterminate"

\* The paths of the assignments of a stack.
PathsOfStack(stackId) ==
    {hunkAssignments[k].path : k \in AssignmentsOfStack(stackId)}

\* After checkStack for the stack, folderCheckStatus is 'checked' for every
\* path that has an assignment in the stack.
CheckStackChecksFolders(stackId) ==
    \A path \in PathsOfStack(stackId) :
        folderCheckStatus(
            checkStackReducer(hunkSelection, hunkAssignments, stackId),
            hunkAssignments, stackId, path) = "checked"

\* C14 as stated: after checkStack for a stack, stackCheckStatus of the stack
\* is 'checked', and so is folderCheckStatus for every path that has an
\* assignment in the stack.
C14_CheckStackChecks ==
    \A stackId \in WideStackIds :
        /\ stackCheckStatus(
               checkStackReducer(hunkSelection, hunkAssignments, stackId),
               hunkAssignments, stackId) = "checked"
        /\ CheckStackChecksFolders(stackId)

\* C14 amended: after checkStack for a stack that has an assignment,
\* stackCheckStatus of the stack is 'checked'; after checkStack for any
\* stack, folderCheckStatus is 'checked' for every path that has an
\* assignment in the stack.
C14_CheckStackChecksAssigned ==
    \A stackId \in WideStackIds :
        /\ AssignmentsOfStack(stackId) # {} =>
               stackCheckStatus(
                   checkStackReducer(hunkSelection, hunkAssignments, stackId),
                   hunkAssignments, stackId) = "checked"
        /\ CheckStackChecksFolders(stackId)

\* checkStack has run, a stack with more than one assignment is 'checked'
\* and the other stack has an assignment and no selection.
C14_Witness ==
    /\ lastAction = "checkStack"
    /\ \E stackId \in WideStackIds, other \in WideStackIds :
           /\ Cardinality(AssignmentsOfStack(stackId)) > 1
           /\ stackCheckStatus(hunkSelection, hunkAssignments, stackId)
                  = "checked"
           /\ AssignmentsOfStack(other) # {}
           /\ stackCheckStatus(hunkSelection, hunkAssignments, other)
                  = "unchecked"

\* C15: for a file with two hunks in a stack and nothing selected,
\* fileCheckStatus of the file is 'indeterminate' after checkHunk for one
\* hunk, 'checked' after checkHunk for the other, 'indeterminate' after
\* uncheckHunk for the first and 'unchecked' after uncheckHunk for the
\* second.
C15_TwoHunksFileStatus ==
    trip.active =>
        /\ error = "none"
        /\ fileCheckStatus(hunkSelection, hunkAssignments,
                           trip.stackId, trip.path)
               = <<"indeterminate", "checked", "indeterminate",
                   "unchecked">>[trip.step]

\* The four steps are taken and the file is 'unchecked'.
C15_Witness ==
    /\ trip.active
    /\ trip.step = 4
    /\ lastAction = "uncheckHunk"
    /\ Cardinality(Ids(hunkAssignments)) = 2
    /\ fileCheckStatus(hunkSelection, hunkAssignments,
                       trip.stackId, trip.path) = "unchecked"

\* The keys of the selections of a file in a stack.
SelectionsOfFile(stackId, path) ==
    {k \in Ids(hunkSelection) :
        /\ hunkSelection[k].stackId = stackId
        /\ hunkSelection[k].path = path}

\* The selections are those before under the same keys, but for the keys of
\* the file in the stack.
OthersUnchanged(after, stackId, path) ==
    \A k \in (Ids(after) \cup Ids(hunkSelection))
                 \ (AssignmentsOfFile(stackId, path)
                        \cup SelectionsOfFile(stackId, path)) :
        /\ k \in Ids(after)
        /\ k \in Ids(hunkSelection)
        /\ after[k] = hunkSelection[k]

\* checkFile leaves a selection with no lines for every assignment of the
\* file in the stack, uncheckFile leaves none of the file in the stack, and
\* both leave the other selections.
CheckFileSelectsFile ==
    \A stackId \in WideStackIds, path \in WidePaths :
        LET checked == checkFileReducer(hunkSelection, hunkAssignments,
                                        stackId, path)
            unchecked == uncheckFileReducer(hunkSelection, stackId, path)
        IN  /\ \A k \in AssignmentsOfFile(stackId, path) :
                   /\ k \in Ids(checked)
                   /\ checked[k].lines = <<>>
                   /\ checked[k].assignmentId = k
            /\ OthersUnchanged(checked, stackId, path)
            /\ \A k \in Ids(unchecked) :
                   ~(/\ unchecked[k].stackId = stackId
                     /\ unchecked[k].path = path)
            /\ OthersUnchanged(unchecked, stackId, path)

\* checkFile and uncheckFile throw nothing and change the selections only.
CheckFileFrame ==
    lastAction' \in {"checkFile", "uncheckFile"} =>
        /\ error' = "none"
        /\ UNCHANGED <<treeChanges, hunkAssignments>>

UnderDir(path, dir) ==
    path = dir \/ StartsWith(path, dir \o Separator)

\* The keys of the assignments of a stack whose path is under the directory.
AssignmentsUnderDir(stackId, dir) ==
    {k \in Ids(hunkAssignments) :
        /\ hunkAssignments[k].stackId = stackId
        /\ UnderDir(hunkAssignments[k].path, dir)}

\* The selections under the other keys are those before.
OutsideDirUnchanged(after, stackId, dir) ==
    \A k \in Ids(hunkAssignments) \ AssignmentsUnderDir(stackId, dir) :
        /\ k \in Ids(after) <=> k \in Ids(hunkSelection)
        /\ k \in Ids(after) => after[k] = hunkSelection[k]

C18_ClearRemovesStack ==
    \A stackId \in StackIds :
        LET after == clearHunkSelectionReducer(hunkSelection, stackId)
        IN  /\ \A k \in Ids(after) : after[k].stackId # stackId
            /\ Ids(after) =
                   {k \in Ids(hunkSelection) :
                       ~StartsWith(k, TemplateString(stackId))}
            /\ \A k \in Ids(after) : after[k] = hunkSelection[k]

\* clearHunkSelection has left the selections of one stack and none of the
\* other, which has an assignment.
C18_Witness ==
    /\ lastAction = "clearHunkSelection"
    /\ Ids(hunkSelection) # {}
    /\ \E stackId \in StackIds :
           /\ \E a \in snapshot.assignments : a.stackId = stackId
           /\ \A k \in Ids(hunkSelection) :
                  hunkSelection[k].stackId # stackId

\* C19: no selection holds a line twice.
C19_LinesFormSet ==
    \A k \in Ids(hunkSelection) :
        \A i, j \in DOMAIN hunkSelection[k].lines :
            i # j => ~SameLine(hunkSelection[k].lines[i],
                               hunkSelection[k].lines[j])

\* The selection holds the line: it has no lines, which is all of them, or
\* the line is one of its lines.
LineSelected(selection, line) ==
    \/ selection.lines = <<>>
    \/ \E i \in DOMAIN selection.lines : SameLine(selection.lines[i], line)

\* C20: after checkLine for a hunk that has a selection with no lines, every
\* line of the hunk is selected as before.
C20_CheckLineKeepsWholeHunk ==
    \A stackId \in StackIds, path \in Paths, hunkHeader \in HunkHeaders,
       line \in LineIds :
        LET key == compositeKey(stackId, path, hunkHeader)
            after == checkLineReducer(hunkSelection, hunkAssignments,
                                      stackId, path, hunkHeader, line)
        IN  (key \in Ids(hunkSelection)
                 /\ hunkSelection[key].lines = <<>>) =>
                \A l \in LineIds : LineSelected(after[key], l)

\* C21: clearHunkSelection for a stack leaves the selections of every other
\* stack, also of a stack whose id starts with the id of the stack.
C21_ClearLeavesOtherStacks ==
    \A stackId \in WideStackIds :
        LET after == clearHunkSelectionReducer(hunkSelection, stackId)
        IN  \A k \in Ids(hunkSelection) :
                hunkSelection[k].stackId # stackId =>
                    /\ k \in Ids(after)
                    /\ after[k] = hunkSelection[k]

\* The old selection under the key has no stable id and is there after the
\* update, without stable id and without lines.
SurvivesByKey(k) ==
    /\ k \in Ids(hunkSelection')
    /\ hunkSelection'[k].stableId = Null
    /\ hunkSelection'[k].assignmentId = k
    /\ hunkSelection'[k].lines = <<>>

C23_StreamsDeliverStoreState ==
    /\ \A s \in rootState.subscribers \cap Subscribers :
           received[<<"rootState", s>>] = store
    /\ \A stream \in DerivedStreams : \A s \in streams[stream] :
           received[<<stream, s>>] = Selected(stream, store)

===========================================================================
